---- MODULE Spec2Model ----
(***************************************************************************)
(* Neighbor-joining pipeline of src/cmcm2019/contracts.py: neighbor_join,  *)
(* the root insertion of main, assemble_tree, generate_newick and bfs.     *)
(*                                                                         *)
(* Distances are Python floats in the source.  They are modelled as exact  *)
(* rationals <<p, q>> in lowest terms with q > 0.  For integer inputs and  *)
(* at most four leaves the divisors are 1 and 2 only, every intermediate   *)
(* value is a dyadic rational with a small numerator and the float         *)
(* arithmetic is exact.  From five leaves on the first pass divides by 3;  *)
(* the floats then round, and two scores that are equal here may differ    *)
(* in the last bit there, so the source may break such a tie differently.  *)
(***************************************************************************)
EXTENDS Integers, Sequences, FiniteSets, TLC

\* ------------------------------------------------------------------ bounds
MaxN == 4        \* largest number of leaves of an arbitrary store
MaxDist == 1     \* largest distance of an arbitrary store
TreeNodes == 5   \* node ids of a caller-supplied edge list: 0..TreeNodes-1
TreeEdges == 4   \* longest caller-supplied edge list

\* --------------------------------------------------------------- rationals
Abs(x) == IF x < 0 THEN -x ELSE x

RECURSIVE GCD(_, _)
GCD(a, b) == IF b = 0 THEN a ELSE GCD(b, a % b)

RNorm(p, q) ==
    IF p = 0 THEN <<0, 1>>
    ELSE LET g == GCD(Abs(p), q) IN <<p \div g, q \div g>>

RInt(x) == <<x, 1>>
RZero == <<0, 1>>
RAdd(a, b) == RNorm(a[1] * b[2] + b[1] * a[2], a[2] * b[2])
RSub(a, b) == RNorm(a[1] * b[2] - b[1] * a[2], a[2] * b[2])
RDivInt(a, m) == RNorm(a[1], a[2] * m)
RHalf(a) == RDivInt(a, 2)
RLess(a, b) == a[1] * b[2] < b[1] * a[2]

\* ----------------------------------------------------------------- helpers
Range(s) == {s[p] : p \in 1..Len(s)}

\* variant of list.remove that leaves the list as it is
ListRemoveKeeps(s, x) == s

\* list.remove(x): drop the first occurrence of x
RECURSIVE ListRemove(_, _)
ListRemove(s, x) ==
    IF s = <<>> THEN <<>>
    ELSE IF Head(s) = x THEN Tail(s)
    ELSE <<Head(s)>> \o ListRemove(Tail(s), x)

\* d[a][b] = v on a dict of dicts (adds the key b to row a when absent)
SetEntry(d, a, b, v) == [d EXCEPT ![a] = (b :> v) @@ @]

\* ------------------------------------------------------------------- state
VARIABLES
    pc,        \* position in main / neighbor_join
    n,         \* number of leaves, len(d) on entry
    d,         \* distance store: id -> (id -> distance)
    L,         \* active list
    edges,     \* edge list
    k,         \* next node id
    i_min,     \* pair chosen by the last iteration
    j_min,
    d_max,     \* root insertion: weight and ends of the longest edge
    i_max,
    j_max,
    root,      \* id of the inserted root
    tree_map,  \* node -> list of children
    newick,    \* the Newick text, a sequence of characters
    visited,   \* the order bfs returns
    err        \* exception raised, "" when none

vars == <<pc, n, d, L, edges, k, i_min, j_min, d_max, i_max, j_max, root,
          tree_map, newick, visited, err>>

tail == <<d_max, i_max, j_max, root, tree_map, newick, visited>>

\* ---------------------------------------------------------- neighbor_join
\* variants of the loop test: one pass too few, one pass too many
LoopGuardStopsEarly(l) == Len(l) > 3
LoopGuardRunsOn(l) == Len(l) > 1

\* while (len(L) > 2)
LoopGuard(l) == Len(l) > 2

\* r[i] += d[i][j] / (len(L) - 2), for j in L (positions 1..p)
RECURSIVE RSum(_, _, _, _)
RSum(dd, l, i, p) ==
    IF p = 0 THEN RZero
    ELSE RAdd(RSum(dd, l, i, p - 1), RDivInt(dd[i][l[p]], Len(l) - 2))

Divergence(dd, l, kk) == [i \in 0..(kk - 1) |-> RSum(dd, l, i, Len(l))]

\* D[i][j] = d[i][j] - (r[i] + r[j])
Score(dd, l, r) ==
    [i \in Range(l) |-> [j \in Range(l) |-> RSub(dd[i][j], RAdd(r[i], r[j]))]]

\* variants of the test: a later equal score replaces the minimum; the
\* diagonal is not skipped
BetterOrEqual(i, j, DD, cur) == (i # j) /\ ~RLess(cur[1], DD[i][j])
BetterAnyPair(i, j, DD, cur) == RLess(DD[i][j], cur[1])

\* the test of the scan
Better(i, j, DD, cur) == (i # j) /\ RLess(DD[i][j], cur[1])

\* for i in L: for j in L: keep the first strictly smaller score.
\* t counts the pairs already scanned; cur = <<min_val, i_min, j_min>>.
RECURSIVE FindMin(_, _, _, _)
FindMin(DD, l, t, cur) ==
    IF t = Len(l) * Len(l) THEN cur
    ELSE LET i == l[(t \div Len(l)) + 1]
             j == l[(t % Len(l)) + 1]
         IN  IF Better(i, j, DD, cur)
             THEN FindMin(DD, l, t + 1, <<DD[i][j], i, j>>)
             ELSE FindMin(DD, l, t + 1, cur)

SelectPair(DD, l) == FindMin(DD, l, 0, <<DD[l[1]][l[2]], l[1], l[2]>>)

\* for m in d[k]: d[k][m] = (1/2)*(d[i][m] + d[j][m] - d[i][j]); d[m][k] = d[k][m]
\* UpdateRow(d0, k, i, j, m) is the store after the passes for 0..m
RECURSIVE UpdateRow(_, _, _, _, _)
UpdateRow(d0, kk, im, jm, m) ==
    IF m < 0 THEN d0
    ELSE LET dd == UpdateRow(d0, kk, im, jm, m - 1)
             v  == RHalf(RSub(RAdd(dd[im][m], dd[jm][m]), dd[im][jm]))
             d1 == SetEntry(dd, kk, m, v)
         IN  SetEntry(d1, m, kk, d1[kk][m])

\* variant of lines 53-65 without the mirrored writes of lines 62-63
ExtendNoMirror(dd, kk, im, jm, r) ==
    LET d0 == (kk :> [i \in 0..kk |-> RZero]) @@ dd
        d1 == UpdateRow(d0, kk, im, jm, kk)
        d2 == SetEntry(d1, im, kk,
                       RHalf(RSub(RAdd(d1[im][jm], r[im]), r[jm])))
        d3 == SetEntry(d2, jm, kk, RSub(d2[im][jm], d2[im][kk]))
    IN  SetEntry(d3, kk, kk, RZero)

\* lines 53-65: the store after node k has been added
Extend(dd, kk, im, jm, r) ==
    LET d0 == (kk :> [i \in 0..kk |-> RZero]) @@ dd
        d1 == UpdateRow(d0, kk, im, jm, kk)
        d2 == SetEntry(d1, im, kk,
                       RHalf(RSub(RAdd(d1[im][jm], r[im]), r[jm])))
        d3 == SetEntry(d2, jm, kk, RSub(d2[im][jm], d2[im][kk]))
        d4 == SetEntry(d3, kk, im, d3[im][kk])
        d5 == SetEntry(d4, kk, jm, d4[jm][kk])
    IN  SetEntry(d5, kk, kk, RZero)

\* variant that hands out the same id again
NextIdSame(kk) == kk

\* k += 1
NextId(kk) == kk + 1

\* one pass of the while loop
NJIter ==
    /\ pc = "nj"
    /\ LoopGuard(L)
    /\ IF Len(L) - 2 = 0 /\ k > 0
       THEN \* d[i][j] / 0 at line 28
            /\ pc' = "error"
            /\ err' = "ZeroDivisionError"
            /\ UNCHANGED <<d, L, edges, k, i_min, j_min>>
       ELSE \E r \in {Divergence(d, L, k)} :
            \E DD \in {Score(d, L, r)} :
            \E sel \in {SelectPair(DD, L)} :
                /\ i_min' = sel[2]
                /\ j_min' = sel[3]
                /\ edges' = edges \o <<(<<sel[2], k>>), (<<sel[3], k>>)>>
                /\ L' = Append(ListRemove(ListRemove(L, sel[2]), sel[3]), k)
                /\ d' = Extend(d, k, sel[2], sel[3], r)
                /\ k' = NextId(k)
                /\ UNCHANGED <<pc, err>>
    /\ UNCHANGED <<n, tail>>

Ok(out) == [err |-> "", out |-> out]
Fail(e) == [err |-> e, out |-> <<>>]

\* variant of the termination case that pads a short list instead of failing
TerminationCasePadded(l) == IF Len(l) < 2 THEN Ok(<<0, 0>>) ELSE Ok(<<l[1], l[2]>>)

\* (L[0], L[1])
TerminationCase(l) == IF Len(l) < 2 THEN Fail("IndexError") ELSE Ok(<<l[1], l[2]>>)

\* edges.append((L[0], L[1])); return edges, d
NJReturn ==
    /\ pc = "nj"
    /\ ~LoopGuard(L)
    /\ \E res \in {TerminationCase(L)} :
           IF res.err # ""
           THEN /\ pc' = "error"
                /\ err' = res.err
                /\ UNCHANGED edges
           ELSE /\ pc' = "root"
                /\ edges' = Append(edges, res.out)
                /\ UNCHANGED err
    /\ UNCHANGED <<n, d, L, k, i_min, j_min, tail>>

\* ---------------------------------------------------- main: root insertion
\* if d[i][j] > d_max
Longer(dd, e, cur) == RLess(cur[1], dd[e[1]][e[2]])

\* for (i, j) in edges: keep the first strictly longer edge.
\* cur = <<d_max, i_max, j_max>>
RECURSIVE FindMax(_, _, _, _)
FindMax(dd, es, p, cur) ==
    IF p > Len(es) THEN cur
    ELSE IF Longer(dd, es[p], cur)
    THEN FindMax(dd, es, p + 1, <<dd[es[p][1]][es[p][2]], es[p][1], es[p][2]>>)
    ELSE FindMax(dd, es, p + 1, cur)

\* d_max = 0; i_max = 0; j_max = 0; then the scan
MaxEdge(dd, es) == FindMax(dd, es, 1, <<RZero, 0, 0>>)

\* variant that takes the last id of the store, not the next free one
RootIdLastKey(dd) == Cardinality(DOMAIN dd) - 1

\* root = len(d)
RootId(dd) == Cardinality(DOMAIN dd)

\* lines 180-194 of main
RootInsert ==
    /\ pc = "root"
    /\ \E mx \in {MaxEdge(d, edges)} :
       \E rt \in {RootId(d)} :
           /\ d_max' = mx[1]
           /\ i_max' = mx[2]
           /\ j_max' = mx[3]
           /\ root' = rt
           /\ IF <<mx[2], mx[3]>> \in Range(edges)
              THEN /\ edges' = ListRemove(edges, <<mx[2], mx[3]>>)
                                 \o <<(<<mx[2], rt>>), (<<mx[3], rt>>)>>
                   /\ pc' = "assemble"
                   /\ UNCHANGED err
              ELSE /\ pc' = "error"
                   /\ err' = "ValueError"
                   /\ UNCHANGED edges
    /\ UNCHANGED <<n, d, L, k, i_min, j_min, tree_map, newick, visited>>

\* ----------------------------------------------------------- assemble_tree
\* variant that misses the edges written (child, rt)
RECURSIVE ChildrenOfFirstOnly(_, _)
ChildrenOfFirstOnly(rt, es) ==
    IF es = <<>> THEN <<>>
    ELSE IF Head(es)[1] = rt
    THEN <<Head(es)[2]>> \o ChildrenOfFirstOnly(rt, Tail(es))
    ELSE ChildrenOfFirstOnly(rt, Tail(es))

\* the children of rt, in edge-list order
RECURSIVE ChildrenOf(_, _)
ChildrenOf(rt, es) ==
    IF es = <<>> THEN <<>>
    ELSE IF Head(es)[1] = rt THEN <<Head(es)[2]>> \o ChildrenOf(rt, Tail(es))
    ELSE IF Head(es)[2] = rt THEN <<Head(es)[1]>> \o ChildrenOf(rt, Tail(es))
    ELSE ChildrenOf(rt, Tail(es))

\* new_edges: the edges that do not touch rt
RECURSIVE NewEdges(_, _)
NewEdges(rt, es) ==
    IF es = <<>> THEN <<>>
    ELSE IF Head(es)[1] = rt \/ Head(es)[2] = rt THEN NewEdges(rt, Tail(es))
    ELSE <<Head(es)>> \o NewEdges(rt, Tail(es))

RECURSIVE assemble_tree(_, _)
RECURSIVE UpdateAll(_, _, _, _)

\* for child in children: tree_map.update(assemble_tree(child, new_edges))
UpdateAll(tm, ch, ne, p) ==
    IF p > Len(ch) THEN tm
    ELSE UpdateAll(assemble_tree(ch[p], ne) @@ tm, ch, ne, p + 1)

assemble_tree(rt, es) ==
    LET ch == ChildrenOf(rt, es)
    IN  UpdateAll((rt :> ch), ch, NewEdges(rt, es), 1)

AssembleTree ==
    /\ pc = "assemble"
    /\ tree_map' = assemble_tree(root, edges)
    /\ pc' = "newick"
    /\ UNCHANGED <<n, d, L, edges, k, i_min, j_min, d_max, i_max, j_max, root,
                   newick, visited, err>>

\* --------------------------------------------------------- generate_newick
Digit == <<"0", "1", "2", "3", "4", "5", "6", "7", "8", "9">>

\* str(x) for x >= 0
RECURSIVE Str(_)
Str(x) == IF x < 10 THEN <<Digit[x + 1]>> ELSE Str(x \div 10) \o <<Digit[(x % 10) + 1]>>

\* the last w digits of x, zero padded
RECURSIVE Pad(_, _)
Pad(x, w) == IF w = 0 THEN <<>> ELSE Pad(x \div 10, w - 1) \o <<Digit[(x % 10) + 1]>>

Million == 1000000

\* "{:.6f}".format(x): nearest multiple of 10^-6, ties to even
Fmt6(x) ==
    LET num == Abs(x[1]) * Million
        fl  == num \div x[2]
        rem == num % x[2]
        u   == IF 2 * rem > x[2] \/ (2 * rem = x[2] /\ fl % 2 = 1)
               THEN fl + 1 ELSE fl
    IN  (IF x[1] < 0 THEN <<"-">> ELSE <<>>)
            \o Str(u \div Million) \o <<".">> \o Pad(u % Million, 6)

\* variant that takes the first two children of a longer list
Unpack2AtLeast(ch) == Len(ch) >= 2

\* (i, j) = tree_map[root]
Unpack2(ch) == Len(ch) = 2

\* variant that does not halve the split edge
BranchLengthWhole(dd, rt, i, j, c, first) == IF first THEN dd[i][j] ELSE dd[rt][c]

\* i_length, j_length = (d[i][j] / 2) if first else d[root][i], d[root][j]
BranchLength(dd, rt, i, j, c, first) == IF first THEN RHalf(dd[i][j]) ELSE dd[rt][c]

\* if first: output += ";"
Terminator(first) == IF first THEN <<";">> ELSE <<>>

\* fuel counts the nested calls still allowed: a call chain longer than the
\* number of keys revisits a node and never returns (RecursionError)
RECURSIVE generate_newick(_, _, _, _, _)
generate_newick(rt, tm, dd, first, fuel) ==
    IF fuel = 0 THEN Fail("RecursionError")
    ELSE IF rt \notin DOMAIN tm THEN Fail("KeyError")
    ELSE IF tm[rt] = <<>> THEN Ok(Str(rt))
    ELSE IF ~Unpack2(tm[rt]) THEN Fail("ValueError")
    ELSE LET i == tm[rt][1]
             j == tm[rt][2]
         IN  IF \/ first /\ ~(i \in DOMAIN dd /\ j \in DOMAIN dd[i])
                \/ ~first /\ ~(rt \in DOMAIN dd /\ {i, j} \subseteq DOMAIN dd[rt])
             THEN Fail("KeyError")
             ELSE LET si == generate_newick(i, tm, dd, FALSE, fuel - 1)
                  IN  IF si.err # "" THEN si
                      ELSE LET sj == generate_newick(j, tm, dd, FALSE, fuel - 1)
                           IN  IF sj.err # "" THEN sj
                               ELSE Ok(<<"(">> \o si.out \o <<":">>
                                       \o Fmt6(BranchLength(dd, rt, i, j, i, first))
                                       \o <<",">> \o sj.out \o <<":">>
                                       \o Fmt6(BranchLength(dd, rt, i, j, j, first))
                                       \o <<")">> \o Terminator(first))

GenerateNewick ==
    /\ pc = "newick"
    /\ \E res \in {generate_newick(root, tree_map, d, TRUE,
                                    Cardinality(DOMAIN tree_map) + 1)} :
           IF res.err = ""
           THEN /\ newick' = res.out
                /\ pc' = "bfs"
                /\ UNCHANGED err
           ELSE /\ pc' = "error"
                /\ err' = res.err
                /\ UNCHANGED newick
    /\ UNCHANGED <<n, d, L, edges, k, i_min, j_min, d_max, i_max, j_max, root,
                   tree_map, visited>>

\* --------------------------------------------------------------------- bfs
\* if node not in visited
Unvisited(node, vis) == node \notin Range(vis)

\* while queue: node = queue.pop(0); ...
RECURSIVE bfs_loop(_, _, _)
bfs_loop(queue, vis, tm) ==
    IF queue = <<>> THEN Ok(vis)
    ELSE LET node == Head(queue)
         IN  IF Unvisited(node, vis)
             THEN IF node \notin DOMAIN tm THEN Fail("KeyError")
                  ELSE bfs_loop(Tail(queue) \o tm[node], Append(vis, node), tm)
             ELSE bfs_loop(Tail(queue), vis, tm)

bfs(rt, tm) == bfs_loop(<<rt>>, <<>>, tm)

Bfs ==
    /\ pc = "bfs"
    /\ \E res \in {bfs(root, tree_map)} :
           IF res.err = ""
           THEN /\ visited' = res.out
                /\ pc' = "done"
                /\ UNCHANGED err
           ELSE /\ pc' = "error"
                /\ err' = res.err
                /\ UNCHANGED visited
    /\ UNCHANGED <<n, d, L, edges, k, i_min, j_min, d_max, i_max, j_max, root,
                   tree_map, newick>>

\* -------------------------------------------------------------------- init
Dists == 0..MaxDist

\* the unordered pairs of distinct leaves
Pairs(nn) == {pr \in (0..(nn - 1)) \X (0..(nn - 1)) : pr[1] < pr[2]}

\* the symmetric zero-diagonal store over 0..nn-1 with u[<<i, j>>] above the diagonal
Store(nn, u) ==
    [i \in 0..(nn - 1) |-> [j \in 0..(nn - 1) |->
        IF i = j THEN RZero
        ELSE IF i < j THEN RInt(u[<<i, j>>]) ELSE RInt(u[<<j, i>>])]]

\* main up to the call of neighbor_join, and lines 13-18
InitOver(sizes, vals) ==
    /\ pc = "nj"
    /\ n \in sizes
    /\ \E u \in [Pairs(n) -> vals] : d = Store(n, u)
    /\ L = [p \in 1..n |-> p - 1]
    /\ edges = <<>>
    /\ k = n
    /\ i_min = 0
    /\ j_min = 0
    /\ d_max = RZero
    /\ i_max = 0
    /\ j_max = 0
    /\ root = 0
    /\ tree_map = <<>>
    /\ newick = <<>>
    /\ visited = <<>>
    /\ err = ""

\* the stores of the documented scenarios: two, three or four leaves with
\* distances among 0, 1, 2, 3 and 10
ScenarioSizes == {2, 3, 4}
ScenarioDists == {0, 1, 2, 3, 10}

Init == InitOver(0..MaxN, Dists) \/ InitOver(ScenarioSizes, ScenarioDists)

Next == NJIter \/ NJReturn \/ RootInsert \/ AssembleTree \/ GenerateNewick \/ Bfs

Spec == Init /\ [][Next]_vars

\* progress of the while loop: a step of the loop (NJIter when LoopGuard
\* holds, NJReturn when it does not) is possible in every state with
\* pc = "nj", so weak fairness of the loop's steps reads: again and again
\* the run is outside the loop or takes a step from inside it
LoopProgress == []<>(pc # "nj") \/ []<><<pc = "nj">>_vars

\* the program with its loop run on: the interpreter executes a sequential
\* program's next statement whenever there is one
SpecFair == Spec /\ LoopProgress

\* ------------------------------------------- edge lists given by a caller
\* assemble_tree, generate_newick and bfs on an arbitrary list of distinct
\* edges over the ids 0..TreeNodes-1; the store holds d[i][j] = |i - j|
EdgeLists ==
    UNION {{es \in [1..m -> Pairs(TreeNodes)] :
               \A p, q \in 1..m : p # q => es[p] # es[q]} : m \in 0..TreeEdges}

InitTree ==
    /\ pc = "assemble"
    /\ n = TreeNodes
    /\ d = Store(TreeNodes, [pr \in Pairs(TreeNodes) |-> pr[2] - pr[1]])
    /\ L = <<>>
    /\ edges \in EdgeLists
    /\ k = TreeNodes
    /\ i_min = 0
    /\ j_min = 0
    /\ d_max = RZero
    /\ i_max = 0
    /\ j_max = 0
    /\ root \in 0..(TreeNodes - 1)
    /\ tree_map = <<>>
    /\ newick = <<>>
    /\ visited = <<>>
    /\ err = ""

NextTree == AssembleTree \/ GenerateNewick \/ Bfs

SpecTree == InitTree /\ [][NextTree]_vars

\* ================================================================ properties
\* the weight of an edge, looked up in the store
Weight(e) == d[e[1]][e[2]]

\* s without its p-th element
RemoveAt(s, p) == SubSeq(s, 1, p - 1) \o SubSeq(s, p + 1, Len(s))

\* the node ids that occur in an edge list
NodesOf(es) == {es[p][1] : p \in 1..Len(es)} \cup {es[p][2] : p \in 1..Len(es)}

\* C1: with n >= 3 leaves neighbor_join returns exactly 2n-3 edges and adds
\* exactly the n-2 ids n..2n-3 to the store; every pass of the loop adds the
\* next id, the p-th pass contributing the two edges that end in n+p-1.
C1_EdgeAndNodeCount ==
    /\ pc = "nj" =>
          /\ k >= n
          /\ DOMAIN d = 0..(k - 1)
          /\ Len(edges) = 2 * (k - n)
          /\ \A p \in 1..(k - n) :
                /\ edges[2 * p - 1][2] = n + p - 1
                /\ edges[2 * p][2] = n + p - 1
    /\ (pc = "root" /\ n >= 3) =>
          /\ Len(edges) = 2 * n - 3
          /\ k = 2 * n - 2
          /\ DOMAIN d = 0..(2 * n - 3)
          /\ DOMAIN d \ (0..(n - 1)) = n..(2 * n - 3)

C1_Witness == pc = "root" /\ n = 4 /\ Len(edges) = 5 /\ DOMAIN d = 0..5

\* C2: for every valid store with n >= 2 leaves root insertion removes exactly
\* one edge of neighbor_join's list, an edge of maximum weight and the first
\* such edge in list order, and appends the two edges that join its ends to
\* the new root id len(d).
C2_RootInsertion ==
    [][(pc = "root" /\ n >= 2) =>
          /\ pc' = "assemble"
          /\ \E p \in 1..Len(edges) :
                /\ \A q \in 1..Len(edges) : ~RLess(Weight(edges[p]), Weight(edges[q]))
                /\ \A q \in 1..(p - 1) : RLess(Weight(edges[q]), Weight(edges[p]))
                /\ edges' = RemoveAt(edges, p)
                              \o <<(<<edges[p][1], Cardinality(DOMAIN d)>>),
                                   (<<edges[p][2], Cardinality(DOMAIN d)>>)>>]_vars

\* the (node, position) pairs of the tree map: one per parent-child entry
Entries(tm) ==
    {e \in (DOMAIN tm) \X (1..Cardinality(DOMAIN tm)) : e[2] <= Len(tm[e[1]])}

\* C3: the tree map built from the root-augmented edge list has one key per
\* node of the list and (number of keys) - 1 parent-child entries, every
\* node but the root is the child of exactly one parent, and bfs returns
\* every key exactly once, the root first.
C3_TreeAndOrder ==
    /\ pc \in {"newick", "bfs", "done"} =>
          /\ DOMAIN tree_map = NodesOf(edges)
          /\ Cardinality(Entries(tree_map)) = Cardinality(DOMAIN tree_map) - 1
          /\ \A c \in DOMAIN tree_map :
                Cardinality({e \in Entries(tree_map) : tree_map[e[1]][e[2]] = c})
                    = IF c = root THEN 0 ELSE 1
    /\ pc = "done" =>
          /\ Len(visited) = Cardinality(DOMAIN tree_map)
          /\ Range(visited) = DOMAIN tree_map
          /\ visited[1] = root

C3_Witness == pc = "done" /\ n = 4 /\ Len(visited) = 7

\* the store of the two-close-pairs scenario
TwoClosePairs ==
    /\ n = 4
    /\ d[0][1] = RInt(1) /\ d[2][3] = RInt(1)
    /\ d[0][2] = RInt(10) /\ d[0][3] = RInt(10)
    /\ d[1][2] = RInt(10) /\ d[1][3] = RInt(10)

\* C4: on the two-close-pairs store neighbor_join returns the edges (0,4),
\* (1,4), (2,5), (3,5), (4,5): 0 and 1 share node 4, 2 and 3 share node 5.
C4_TwoClosePairs ==
    (TwoClosePairs /\ pc = "root") =>
        edges = <<(<<0, 4>>), (<<1, 4>>), (<<2, 5>>), (<<3, 5>>), (<<4, 5>>)>>

C4_Witness == TwoClosePairs /\ pc = "root" /\ Len(edges) = 5

\* the three-leaf store D[0][1] = 2, D[0][2] = 3, D[1][2] = 3
ThreeLeafExample ==
    /\ n = 3
    /\ d[0][1] = RInt(2) /\ d[0][2] = RInt(3) /\ d[1][2] = RInt(3)

\* C5: no run divides by zero, the divisor |active| - 2 of every pass is at
\* least 1; with n = 2 the loop is not entered, the store and k are left as
\* given and the single edge (0,1) is returned; on the three-leaf example
\* exactly one pass runs, merging 0 and 1 into node 3, and the edges
\* (0,3), (1,3), (2,3) are returned.
C5_BoundarySizes ==
    [][/\ err' # "ZeroDivisionError"
       /\ (pc = "nj" /\ L' # L) => Len(L) - 2 >= 1
       /\ (pc = "nj" /\ n = 2) =>
             /\ pc' = "root"
             /\ edges' = <<(<<0, 1>>)>>
             /\ d' = d /\ k' = k /\ L' = L
       /\ (pc = "nj" /\ ThreeLeafExample /\ edges = <<>>) =>
             /\ pc' = "nj"
             /\ i_min' = 0 /\ j_min' = 1
             /\ k = 3 /\ k' = 4
             /\ L' = <<2, 3>>
             /\ edges' = <<(<<0, 3>>), (<<1, 3>>)>>
       /\ (pc = "nj" /\ ThreeLeafExample /\ edges # <<>>) =>
             /\ pc' = "root"
             /\ edges' = <<(<<0, 3>>), (<<1, 3>>), (<<2, 3>>)>>]_vars

C5_Witness == ThreeLeafExample /\ pc = "root" /\ Len(edges) = 3 /\ err = ""

\* C6 as stated: with fewer than 3 leaves neighbor_join ends in an error
\* before the loop is entered and never returns an edge list.
C6_RejectsUnderThree ==
    (n < 3) =>
        /\ pc \in {"nj", "error"}
        /\ pc = "error" => (edges = <<>> /\ k = n)

\* C6 as amended: with fewer than 2 leaves (n = 0 or 1) neighbor_join ends
\* in an IndexError raised by the termination case, the loop not entered and
\* no edge list returned; with n = 2 it raises nothing and returns the
\* single edge (0,1).
C6_RejectsUnderTwo ==
    [][/\ (pc = "nj" /\ n < 2) =>
             /\ pc' = "error"
             /\ err' = "IndexError"
             /\ edges' = <<>> /\ k' = n /\ d' = d /\ L' = L
       /\ (pc = "nj" /\ n = 2) =>
             /\ pc' = "root"
             /\ err' = ""
             /\ edges' = <<(<<0, 1>>)>>]_vars

C6_Witness == pc = "error" /\ n = 1 /\ err = "IndexError" /\ edges = <<>>

\* the nodes generate_newick can reach from rt through the tree map
RECURSIVE ReachFrom(_, _)
ReachFrom(seen, tm) ==
    LET more == seen \cup UNION {Range(tm[x]) : x \in seen \cap DOMAIN tm}
    IN  IF more = seen THEN seen ELSE ReachFrom(more, tm)

\* a node whose number of children is neither 0 nor 2
Malformed(x, tm) == x \in DOMAIN tm /\ Len(tm[x]) \notin {0, 2}

\* C7 as stated: neither assemble_tree nor generate_newick returns once it
\* has met a node whose number of children is neither 0 nor 2.
C7_BothSurfaceMalformed ==
    /\ pc \in {"newick", "bfs", "done"} =>
          \A x \in DOMAIN tree_map : ~Malformed(x, tree_map)
    /\ pc \in {"bfs", "done"} =>
          \A x \in ReachFrom({root}, tree_map) : ~Malformed(x, tree_map)

\* C7 as amended: generate_newick ends in a fatal error (the ValueError of
\* the two-element unpacking) exactly when a node it reaches has a number of
\* children that is neither 0 nor 2, and returns a string otherwise;
\* assemble_tree makes no such check and returns a tree map for every edge
\* list.
C7_SerializerSurfacesMalformed ==
    [][/\ pc = "assemble" => (pc' = "newick" /\ err' = "")
       /\ pc = "newick" =>
             IF \E x \in ReachFrom({root}, tree_map) : Malformed(x, tree_map)
             THEN pc' = "error" /\ err' = "ValueError" /\ newick' = <<>>
             ELSE pc' = "bfs" /\ err' = "" /\ newick' # <<>>]_vars

C7_Witness ==
    /\ pc = "error" /\ err = "ValueError"
    /\ \E x \in DOMAIN tree_map : Len(tree_map[x]) = 4

\* the text of the subtree below a node that is not the root: a leaf is its
\* id, an internal node carries d[node][c] for each child c
RECURSIVE SubtreeText(_)
SubtreeText(c) ==
    IF tree_map[c] = <<>> THEN Str(c)
    ELSE <<"(">> \o SubtreeText(tree_map[c][1]) \o <<":">>
             \o Fmt6(d[c][tree_map[c][1]]) \o <<",">>
             \o SubtreeText(tree_map[c][2]) \o <<":">>
             \o Fmt6(d[c][tree_map[c][2]]) \o <<")">>

\* C8: the root's children are the ends i, j of the edge root insertion
\* removed and both of their branch lengths are d[i][j] / 2; below the root
\* the branch length of child c of a node is d[node][c]; a leaf is its id
\* alone; the text holds one ';', its last character.
C8_BranchLengths ==
    /\ pc \in {"newick", "bfs", "done"} => tree_map[root] = <<i_max, j_max>>
    /\ pc \in {"bfs", "done"} =>
          /\ d_max = d[i_max][j_max]
          /\ newick = <<"(">> \o SubtreeText(i_max) \o <<":">>
                        \o Fmt6(RDivInt(d[i_max][j_max], 2)) \o <<",">>
                        \o SubtreeText(j_max) \o <<":">>
                        \o Fmt6(RDivInt(d[i_max][j_max], 2)) \o <<")", ";">>
          /\ Cardinality({p \in 1..Len(newick) : newick[p] = ";"}) = 1
    /\ (pc = "error" /\ n >= 2) => tree_map = <<>>

C8_Witness == pc = "done" /\ n = 4 /\ newick[Len(newick)] = ";" /\ d_max # RZero

\* the sum of d[a][j] over the ids j of a set
RECURSIVE RowSum(_, _)
RowSum(a, S) ==
    IF S = {} THEN RZero
    ELSE LET j == CHOOSE x \in S : TRUE
         IN  RAdd(d[a][j], RowSum(a, S \ {j}))

\* Q[a][b] = d[a][b] - r[a] - r[b] over the active ids
Q(a, b) ==
    RSub(RSub(d[a][b], RDivInt(RowSum(a, Range(L)), Len(L) - 2)),
         RDivInt(RowSum(b, Range(L)), Len(L) - 2))

Ascending(l) == \A p, q \in 1..Len(l) : p < q => l[p] < l[q]

\* C9: the active list is in ascending id order at the start of every pass,
\* and the pair a pass selects is a pair of distinct active ids of minimum
\* score that comes first, by ascending i and then ascending j, among the
\* pairs of that score; so i* < j*.
C9_SelectedPair ==
    [][(pc = "nj" /\ Len(L) > 2) =>
          /\ Ascending(L)
          /\ {i_min', j_min'} \subseteq Range(L)
          /\ i_min' # j_min'
          /\ i_min' < j_min'
          /\ \A a, b \in Range(L) :
                (a # b) =>
                   /\ ~RLess(Q(a, b), Q(i_min', j_min'))
                   /\ (Q(a, b) = Q(i_min', j_min')) =>
                         (i_min' < a \/ (i_min' = a /\ j_min' <= b))]_vars

C9_Witness == pc = "nj" /\ n = 4 /\ Len(edges) = 4 /\ i_min < j_min /\ i_min >= 2

\* C10: at the end of every pass and on return the store is defined for
\* every pair of the ids 0..k-1 created so far, active or not, is symmetric
\* and has a zero diagonal.
C10_StoreInvariant ==
    pc \in {"nj", "root"} =>
        /\ DOMAIN d = 0..(k - 1)
        /\ \A i \in 0..(k - 1) :
              /\ DOMAIN d[i] = 0..(k - 1)
              /\ d[i][i] = RZero
              /\ \A j \in 0..(k - 1) : d[i][j] = d[j][i]

C10_Witness ==
    /\ pc = "root" /\ n = 4 /\ k = 6
    /\ 0 \notin Range(L) /\ d[0][5] = d[5][0] /\ d[5][5] = RZero

\* the shape of a rooted binary tree over the leaves 0..n-1, the internal
\* nodes n..2n-3 and the root rt
BinaryShape(tm, rt) ==
    /\ DOMAIN tm = (0..(2 * n - 3)) \cup {rt}
    /\ Len(tm[rt]) = 2
    /\ \A x \in n..(2 * n - 3) : Len(tm[x]) = 2
    /\ \A x \in 0..(n - 1) : tm[x] = <<>>

\* the edge list after a root rt has been put on the p-th edge
RootedAt(es, p, rt) ==
    RemoveAt(es, p) \o <<(<<es[p][1], rt>>), (<<es[p][2], rt>>)>>

\* C11: with n >= 2 leaves the tree map built after root insertion gives the
\* root len(d) and every internal node n..2n-3 exactly two children and every
\* leaf 0..n-1 an empty child list; the same holds for the tree map of
\* neighbor_join's edge list rooted on any of its edges.
C11_BinaryTree ==
    /\ (pc \in {"newick", "bfs", "done"} /\ n >= 2) =>
          /\ root = Cardinality(DOMAIN d)
          /\ root \notin 0..(2 * n - 3)
          /\ BinaryShape(tree_map, root)
    /\ (pc = "root" /\ n >= 2) =>
          \A p \in 1..Len(edges) :
              BinaryShape(assemble_tree(Cardinality(DOMAIN d),
                                        RootedAt(edges, p, Cardinality(DOMAIN d))),
                          Cardinality(DOMAIN d))

C11_Witness ==
    /\ pc = "done" /\ n = 4 /\ root = 6
    /\ Len(tree_map[6]) = 2 /\ Len(tree_map[4]) = 2 /\ Len(tree_map[5]) = 2
    /\ tree_map[0] = <<>> /\ tree_map[3] = <<>>
    /\ i_max < 4

\* C12: with n >= 2 leaves the active list starts as 0..n-1 and holds
\* n - (k - n) ids after k - n passes; a pass takes the two selected ids out
\* of it and puts the new id k in, one id fewer in all; the loop is left
\* after exactly max(n - 2, 0) passes with two active ids, the edge joining
\* them is appended and no node is created; and every run leaves the loop.
C12_LoopTerminates ==
    /\ [][(pc = "nj" /\ n >= 2) =>
             /\ k = n => L = [p \in 1..n |-> p - 1]
             /\ Len(L) = n - (k - n)
             /\ Cardinality(Range(L)) = Len(L)
             /\ IF Len(L) > 2
                THEN /\ pc' = "nj"
                     /\ k' = k + 1
                     /\ k \notin Range(L)
                     /\ {i_min', j_min'} \subseteq Range(L)
                     /\ i_min' # j_min'
                     /\ Range(L') = (Range(L) \ {i_min', j_min'}) \cup {k}
                     /\ Len(L') = Len(L) - 1
                ELSE /\ Len(L) = 2
                     /\ k - n = (IF n - 2 > 0 THEN n - 2 ELSE 0)
                     /\ pc' = "root"
                     /\ edges' = Append(edges, <<L[1], L[2]>>)
                     /\ k' = k /\ d' = d /\ L' = L]_vars
    /\ (pc = "nj" /\ n >= 2) ~> (pc = "root" /\ Len(L) = 2)

C12_Witness ==
    /\ pc = "root" /\ n = 4 /\ k - n = 2 /\ Len(L) = 2
    /\ edges[Len(edges)] = <<L[1], L[2]>> /\ DOMAIN d = 0..(k - 1)

\* the ids an edge list consumes as first (child) endpoints
Consumed(es) == {es[p][1] : p \in 1..Len(es)}

\* how often the merge edges ms and the final edge f consume the id x
TimesConsumed(x, ms, f) ==
    Cardinality({p \in 1..Len(ms) : ms[p][1] = x})
        + (IF x = f[1] THEN 1 ELSE 0) + (IF x = f[2] THEN 1 ELSE 0)

\* inside the loop: no id is the child of two merge edges, the ids created
\* so far are the active ones and the consumed ones, and none is both; on
\* return: the final edge joins the two active ids, which no merge has
\* consumed, and every id 0..2n-3 is consumed exactly once
EachIdOnce ==
    /\ pc = "nj" =>
          /\ \A p, q \in 1..Len(edges) : (p # q) => edges[p][1] # edges[q][1]
          /\ Range(L) \cap Consumed(edges) = {}
          /\ Range(L) \cup Consumed(edges) = 0..(k - 1)
    /\ (pc = "root" /\ n >= 2) =>
          LET ms == SubSeq(edges, 1, Len(edges) - 1)
              f  == edges[Len(edges)]
          IN  /\ f[1] # f[2]
              /\ {f[1], f[2]} = Range(L)
              /\ {f[1], f[2]} \cap Consumed(ms) = {}
              /\ \A x \in 0..(2 * n - 3) : TimesConsumed(x, ms, f) = 1

\* C13: in a run of neighbor_join an id a merge has taken out of the active
\* list never comes back into it and is never selected again, the pair a pass
\* selects is active before the pass and consumed after it, each id is the
\* first endpoint of at most one merge edge, the ends of the final edge are
\* the two active ids no merge has consumed, and every id 0..2n-3 is consumed
\* by exactly one edge.
C13_NoIdConsumedTwice ==
    [][/\ EachIdOnce
       /\ EachIdOnce'
       /\ pc = "nj" =>
             /\ \A x \in 0..(k - 1) : x \notin Range(L) => x \notin Range(L')
             /\ SubSeq(edges', 1, Len(edges)) = edges
             /\ (pc' = "nj") =>
                   /\ {i_min', j_min'} \subseteq Range(L)
                   /\ {i_min', j_min'} \cap Consumed(edges) = {}
                   /\ {i_min', j_min'} \cap Range(L') = {}
                   /\ Consumed(edges') = Consumed(edges) \cup {i_min', j_min'}]_vars

C13_Witness ==
    /\ pc = "root" /\ n = 4
    /\ edges = <<(<<0, 4>>), (<<2, 4>>), (<<1, 5>>), (<<3, 5>>), (<<4, 5>>)>>
    /\ L = <<4, 5>>
====
